---- MODULE Spec2Model ----
(* Sniper Hold'em: the round / phase / turn state machine of                 *)
(* src/components/Dealer.tsx over the shared game record games/<gameId>.    *)
(* The record is the pair (players, dealer); every exported operation reads  *)
(* it with get(), works on its private copy and writes the copy back with    *)
(* update().  An operation that hands over to advancePhase / resolveBets /   *)
(* startNewRound / startGame returns without writing its copy: the callee    *)
(* reads the record again.                                                   *)
EXTENDS Integers, Sequences, FiniteSets, TLC

(***************************************************************************)
(* Bounds of the exploration                                               *)
(***************************************************************************)
\* rounds set up per game; no operation is issued once round MaxRounds is set up
MaxRounds == 2
\* seats at the table (player keys, in the key order of the record)
Players == {1, 2}
\* seats of the three-player table, explored on its own
TablePlayers == {1, 2, 3}
\* the `amount` and `prediction` arguments tried at the three-player table
\* and with two clients
TableAmounts == {10}
TablePredictions == {"pair"}
\* the `amount` arguments tried with submitBet
Amounts == {5, 10, 60, 70}
\* the `prediction` arguments tried with submitSnipe
Predictions == {"high card", "pair", "bogus"}
\* outcomes of Math.random() as <<numerator, denominator>>, for the seat draw
\* and for the card draws
DrawRandom == {<<0, 1>>, <<4, 5>>}
CardRandom == {<<0, 1>>}
\* advancePhase calls followed step by step per behaviour
MaxCalls == 2
\* operations of the clients in flight at once
MaxOps == 2
\* highest rank of the cards handed to evaluateHand on its own
MaxHandRank == 6

(***************************************************************************)
(* Program constants                                                       *)
(***************************************************************************)
StartChips == 60
DeckCopies == 4
MaxRank == 10
DrawSides == 5

Null == "null"
Actions == {"fold", "check", "call", "raise"}
validPredictions ==
  {"high card", "pair", "two pair", "three of a kind", "straight",
   "full house", "four of a kind"}

N == Cardinality(Players)

Min(a, b) == IF a < b THEN a ELSE b

\* Math.floor(Math.random() * n) for the outcome r of Math.random()
FloorRandom(r, n) == (r[1] * n) \div r[2]

RECURSIVE SumOver(_, _)
SumOver(f, S) ==
  IF S = {} THEN 0
  ELSE LET x == CHOOSE y \in S : TRUE IN f[x] + SumOver(f, S \ {x})

(***************************************************************************)
(* Deck                                                                    *)
(***************************************************************************)
createDeck == [i \in 1..(DeckCopies * MaxRank) |-> ((i - 1) % MaxRank) + 1]

\* deck.splice(idx, 1): the deck without its element at 0-based index idx
Splice(deck, idx) ==
  [i \in 1..(Len(deck) - 1) |-> IF i <= idx THEN deck[i] ELSE deck[i + 1]]

\* getRandomCard: <<card, rest of the deck>>; an empty deck yields undefined,
\* written 0 here
getRandomCard(deck, r) ==
  IF Len(deck) = 0 THEN <<0, deck>>
  ELSE LET idx == FloorRandom(r, Len(deck))
       IN <<deck[idx + 1], Splice(deck, idx)>>

getRandomDraw(r) == FloorRandom(r, DrawSides) + 1

\* deck.filter(c => !used.includes(c)) for the cards in hands and on the board
RemainingDeck(hands, board) ==
  LET used == UNION {{hands[p][i] : i \in 1..Len(hands[p])} : p \in DOMAIN hands}
                \cup {board[i] : i \in 1..Len(board)}
  IN SelectSeq(createDeck, LAMBDA c : c \notin used)

(***************************************************************************)
(* Hand evaluation                                                         *)
(***************************************************************************)
CountOf(cards, v) == Cardinality({i \in 1..Len(cards) : cards[i] = v})

isStraight(cards) ==
  LET distinct == {cards[i] : i \in 1..Len(cards)}
  IN /\ Cardinality(distinct) >= 5
     /\ \E lo \in distinct :
          \E hi \in distinct :
            /\ hi - lo = 4
            /\ Cardinality({v \in distinct : lo <= v /\ v <= hi}) = 5

\* evaluateHand taking two or more pairs for 'two pair'
evaluateHand_TwoOrMorePairs(cards) ==
  LET keys == {cards[i] : i \in 1..Len(cards)}
      has(n) == \E v \in keys : CountOf(cards, v) = n
      pairs == Cardinality({v \in keys : CountOf(cards, v) = 2})
  IN IF has(4) THEN <<"four of a kind", 7>>
     ELSE IF has(3) /\ has(2) THEN <<"full house", 6>>
     ELSE IF isStraight(cards) THEN <<"straight", 5>>
     ELSE IF has(3) THEN <<"three of a kind", 4>>
     ELSE IF pairs >= 2 THEN <<"two pair", 3>>
     ELSE IF has(2) THEN <<"pair", 2>>
     ELSE <<"high card", 1>>

\* evaluateHand: <<hand type, score>>
evaluateHand(cards) ==
  LET keys == {cards[i] : i \in 1..Len(cards)}
      has(n) == \E v \in keys : CountOf(cards, v) = n
      pairs == Cardinality({v \in keys : CountOf(cards, v) = 2})
  IN IF has(4) THEN <<"four of a kind", 7>>
     ELSE IF has(3) /\ has(2) THEN <<"full house", 6>>
     ELSE IF isStraight(cards) THEN <<"straight", 5>>
     ELSE IF has(3) THEN <<"three of a kind", 4>>
     ELSE IF pairs = 2 THEN <<"two pair", 3>>
     ELSE IF has(2) THEN <<"pair", 2>>
     ELSE <<"high card", 1>>

(***************************************************************************)
(* The shared game record                                                  *)
(*                                                                         *)
(* The fields the operations only write for display (name, draw,           *)
(* lastAction, lastActionAmount, dealer/draws, dealer/actionHistory) are   *)
(* left out: no operation reads them.                                      *)
(***************************************************************************)
VARIABLES
  chips,             \* players/<id>/chips
  hand,              \* players/<id>/hand
  bet,               \* players/<id>/bet
  folded,            \* players/<id>/folded
  hasActed,          \* players/<id>/hasActed
  snipedPrediction,  \* players/<id>/snipedPrediction
  phase,             \* dealer/phase
  currentTurn,       \* dealer/currentTurn, a 0-based index into turnOrder
  turnOrder,         \* dealer/turnOrder
  communityCards,    \* dealer/communityCards
  pot,               \* dealer/pot
  currentBet,        \* dealer/currentBet
  acted,             \* dealer/acted, as the set of its keys
  roundNumber,       \* dealer/roundNumber
  roundResults,      \* dealer/roundResults
  last,              \* the operation that ran last, its arguments and its outcome
  pending            \* the advancePhase calls in flight, in the order they were made

playerVars == <<chips, hand, bet, folded, hasActed, snipedPrediction>>
dealerVars == <<phase, currentTurn, turnOrder, communityCards, pot, currentBet,
                acted, roundNumber, roundResults>>
record == <<playerVars, dealerVars>>
vars == <<record, last, pending>>

\* Object.keys(players): the player keys of the record
Seats == DOMAIN chips

\* the player whose turn it is
Current == turnOrder[currentTurn + 1]

TotalChips == SumOver(chips, Players)

(***************************************************************************)
(* startGame                                                               *)
(***************************************************************************)
\* Object.keys(players).sort((a, b) => draws[b] - draws[a]): highest draw
\* first, equal draws in key order
SortByDraw(draws) ==
  CHOOSE s \in [1..Cardinality(DOMAIN draws) -> DOMAIN draws] :
    /\ \A i, j \in DOMAIN s : i # j => s[i] # s[j]
    /\ \A i, j \in DOMAIN s :
         i < j => \/ draws[s[i]] > draws[s[j]]
                  \/ draws[s[i]] = draws[s[j]] /\ s[i] < s[j]

\* the cards startGame draws from a fresh deck, in the order drawn, for the
\* outcomes rc of Math.random(): cards 1, 2 go to the board, cards 2p+1, 2p+2
\* to the p-th player in key order
RECURSIVE DrawCards(_, _, _)
DrawCards(deck, rc, k) ==
  IF k > Len(rc) THEN <<>>
  ELSE LET d == getRandomCard(deck, rc[k])
       IN <<d[1]>> \o DrawCards(d[2], rc, k + 1)

DealCards(rc) == DrawCards(createDeck, rc, 1)

\* the deals and the turn orders startGame can produce
Deals == {DealCards(rc) : rc \in [1..(2 + 2 * N) -> CardRandom]}
TableDeals ==
  {DealCards(rc) : rc \in [1..(2 + 2 * Cardinality(TablePlayers)) -> CardRandom]}

\* players[id].chips || 60
KeptChips(c) == IF c = 0 THEN StartChips ELSE c

TurnOrders ==
  {SortByDraw([p \in Players |-> getRandomDraw(rd[p])]) : rd \in [Players -> DrawRandom]}
TableTurnOrders ==
  {SortByDraw([p \in TablePlayers |-> getRandomDraw(rd[p])]) :
     rd \in [TablePlayers -> DrawRandom]}

\* startGame reads the record and writes a freshly set-up round with the turn
\* order and the cards it drew
StartGameWrite(order, cards) ==
  /\ chips' = [p \in Seats |-> KeptChips(chips[p])]
  /\ folded' = [p \in Seats |-> FALSE]
  /\ bet' = [p \in Seats |-> 0]
  /\ snipedPrediction' = [p \in Seats |-> Null]
  /\ hasActed' = [p \in Seats |-> FALSE]
  /\ hand' = [p \in Seats |-> <<cards[2 * p + 1], cards[2 * p + 2]>>]
  /\ turnOrder' = order
  /\ communityCards' = <<cards[1], cards[2]>>
  /\ currentBet' = 0
  /\ pot' = 0
  /\ phase' = "bet1"
  /\ currentTurn' = 0
  /\ roundNumber' = roundNumber + 1
  /\ roundResults' = roundResults
  /\ acted' = {}

StartGameStep ==
  \E order \in (IF Seats = Players THEN TurnOrders ELSE TableTurnOrders) :
    \E cards \in (IF Seats = Players THEN Deals ELSE TableDeals) :
      StartGameWrite(order, cards)

StartGame ==
  /\ roundNumber < MaxRounds
  /\ StartGameStep
  /\ UNCHANGED pending
  /\ last' = [op |-> "startGame", player |-> 0, arg |-> Null, amount |-> 0,
              outcome |-> "written"]

\* the record after the lobby has seated the players and startGame has run
InitRecord ==
  /\ chips = [p \in Players |-> StartChips]
  /\ folded = [p \in Players |-> FALSE]
  /\ bet = [p \in Players |-> 0]
  /\ snipedPrediction = [p \in Players |-> Null]
  /\ hasActed = [p \in Players |-> FALSE]
  /\ \E cards \in Deals :
       /\ hand = [p \in Players |-> <<cards[2 * p + 1], cards[2 * p + 2]>>]
       /\ communityCards = <<cards[1], cards[2]>>
  /\ turnOrder \in TurnOrders
  /\ currentBet = 0
  /\ pot = 0
  /\ phase = "bet1"
  /\ currentTurn = 0
  /\ roundNumber = 1
  /\ roundResults = <<>>
  /\ acted = {}

Init ==
  /\ InitRecord
  /\ pending = <<>>
  /\ last = [op |-> "startGame", player |-> 0, arg |-> Null, amount |-> 0,
             outcome |-> "written"]

(***************************************************************************)
(* advancePhase, resolveBets, startNewRound                                *)
(***************************************************************************)
\* no operation is issued once the last round of the exploration is set up
Playing == roundNumber < MaxRounds

\* the computation of resolveBets on the record it reads
ActivePlayers == {q \in Seats : ~folded[q]}

HandOf(q) == evaluateHand(hand[q] \o communityCards)

Sniped ==
  {q \in ActivePlayers :
     \E sniper \in ActivePlayers : snipedPrediction[sniper] = HandOf(q)[1]}

Eligible == ActivePlayers \ Sniped

\* Object.keys(hands) restricted to S: the players of S in key order
RECURSIVE KeyOrder(_)
KeyOrder(S) ==
  IF S = {} THEN <<>>
  ELSE LET k == CHOOSE x \in S : \A y \in S : x <= y
       IN <<k>> \o KeyOrder(S \ {k})

\* the loop over eligible: a strictly higher score replaces the winner
RECURSIVE WinnerLoop(_, _, _)
WinnerLoop(ids, maxScore, winnerId) ==
  IF ids = <<>> THEN winnerId
  ELSE LET score == HandOf(Head(ids))[2]
       IN IF score > maxScore
          THEN WinnerLoop(Tail(ids), score, Head(ids))
          ELSE WinnerLoop(Tail(ids), maxScore, winnerId)

\* winnerId of resolveBets; 'split' and the initial '' are written 0, which
\* is no player key
WinnerId ==
  IF Eligible = {} THEN 0 ELSE WinnerLoop(KeyOrder(Eligible), 0, 0)

\* players[id].chips in resolveBets' copy of the record after the pot is paid
ResolvedChips ==
  IF Eligible = {} THEN [q \in Seats |-> chips[q] + (pot \div Cardinality(Seats))]
  ELSE [chips EXCEPT ![WinnerId] = @ + pot]

\* the roundResult resolveBets builds
RoundResult ==
  [roundNumber |-> roundNumber, winnerId |-> WinnerId, pot |-> pot]

\* startNewRound reads the record again, resets its own copy and calls
\* startGame, which reads the record once more and writes the new round
StartNewRound == StartGameStep

\* resolveBets reads the record, pays the pot and appends the round result in
\* its own copy, and calls startNewRound without writing the copy
ResolveBets == StartNewRound

\* advancePhase drawing a single card in bet1
AdvancePhase_OneCard ==
  IF phase = "snipe" THEN ResolveBets
  ELSE
    /\ hasActed' = [q \in Seats |-> FALSE]
    /\ currentBet' = 0
    /\ currentTurn' = 0
    /\ acted' = {}
    /\ IF phase = "bet1"
       THEN /\ \E r1 \in CardRandom :
                 LET remaining == RemainingDeck(hand, communityCards)
                     d1 == getRandomCard(remaining, r1)
                 IN communityCards' = communityCards \o <<d1[1]>>
            /\ phase' = "bet2"
       ELSE /\ communityCards' = communityCards
            /\ phase' = "snipe"
    /\ UNCHANGED <<chips, hand, bet, folded, snipedPrediction, turnOrder, pot,
                   roundNumber, roundResults>>

\* advancePhase reads the record; in bet1 it draws two cards from the
\* remaining deck; it writes the record unless the phase is snipe
AdvancePhase ==
  IF phase = "snipe" THEN ResolveBets
  ELSE
    /\ hasActed' = [q \in Seats |-> FALSE]
    /\ currentBet' = 0
    /\ currentTurn' = 0
    /\ acted' = {}
    /\ IF phase = "bet1"
       THEN /\ \E r1 \in CardRandom :
                 \E r2 \in CardRandom :
                   LET remaining == RemainingDeck(hand, communityCards)
                       d1 == getRandomCard(remaining, r1)
                       d2 == getRandomCard(d1[2], r2)
                   IN communityCards' = communityCards \o <<d1[1], d2[1]>>
            /\ phase' = "bet2"
       ELSE /\ communityCards' = communityCards
            /\ phase' = "snipe"
    /\ UNCHANGED <<chips, hand, bet, folded, snipedPrediction, turnOrder, pot,
                   roundNumber, roundResults>>

(***************************************************************************)
(* submitBet                                                               *)
(***************************************************************************)
toCall(p) == currentBet - bet[p]

\* submitBet's validation without the test of the folded flag
BetValid_NoFoldedTest(p, action, amount) ==
  /\ turnOrder[currentTurn + 1] = p
  /\ phase \in {"bet1", "bet2"}
  /\ ~(action = "check" /\ toCall(p) > 0)
  /\ ~(action = "call" /\ chips[p] < toCall(p))
  /\ action = "raise" =>
       /\ amount > currentBet
       /\ ~(amount - bet[p] <= toCall(p))
       /\ ~(chips[p] < amount - bet[p])

\* submitBet's validation without the test of the raiser's chips
BetValid_NoChipsTest(p, action, amount) ==
  /\ turnOrder[currentTurn + 1] = p
  /\ ~folded[p]
  /\ phase \in {"bet1", "bet2"}
  /\ ~(action = "check" /\ toCall(p) > 0)
  /\ ~(action = "call" /\ chips[p] < toCall(p))
  /\ action = "raise" =>
       /\ amount > currentBet
       /\ ~(amount - bet[p] <= toCall(p))

\* the validation of submitBet: TRUE when the action goes on to be executed
BetValid(p, action, amount) ==
  /\ turnOrder[currentTurn + 1] = p
  /\ ~folded[p]
  /\ phase \in {"bet1", "bet2"}
  /\ ~(action = "check" /\ toCall(p) > 0)
  /\ ~(action = "call" /\ chips[p] < toCall(p))
  /\ action = "raise" =>
       /\ amount > currentBet
       /\ ~(amount - bet[p] <= toCall(p))
       /\ ~(chips[p] < amount - bet[p])

\* the chips the action moves from the player to the pot
BetMoved(p, action, amount) ==
  CASE action = "call" -> Min(toCall(p), chips[p])
    [] action = "raise" -> amount - bet[p]
    [] OTHER -> 0

\* a raise deducting the whole amount instead of amount - bet
BetChips_RaiseFullAmount(p, action, amount) ==
  [chips EXCEPT ![p] = @ - (IF action = "raise" THEN amount
                            ELSE BetMoved(p, action, amount))]

\* submitBet's copy of the record after the action is executed
BetChips(p, action, amount) ==
  [chips EXCEPT ![p] = @ - BetMoved(p, action, amount)]

BetBet(p, action, amount) ==
  CASE action = "call" -> [bet EXCEPT ![p] = @ + BetMoved(p, action, amount)]
    [] action = "raise" -> [bet EXCEPT ![p] = amount]
    [] OTHER -> bet

\* the pot credited for raises only
BetPot_CallNotCredited(p, action, amount) ==
  IF action = "raise" THEN pot + BetMoved(p, action, amount) ELSE pot

BetPot(p, action, amount) == pot + BetMoved(p, action, amount)

\* currentBet set by a raise to the chips the raise moves
BetCurrentBet_RaiseDelta(p, action, amount) ==
  IF action = "raise" THEN amount - bet[p] ELSE currentBet

BetCurrentBet(p, action, amount) ==
  IF action = "raise" THEN amount ELSE currentBet

BetFolded(p, action) ==
  IF action = "fold" THEN [folded EXCEPT ![p] = TRUE] ELSE folded

BetActed(p, action) ==
  IF action = "raise" THEN {p} ELSE acted \cup {p}

\* the round-completion test without the test of the acted-set
BettingComplete_NoActedTest(f, b, cb, a) ==
  LET active == {q \in DOMAIN f : ~f[q]}
  IN \/ \A q \in active : b[q] = cb
     \/ Cardinality(active) = 1

\* the round-completion test on submitBet's copy
BettingComplete(f, b, cb, a) ==
  LET active == {q \in DOMAIN f : ~f[q]}
  IN \/ \A q \in active : q \in a /\ b[q] = cb
     \/ Cardinality(active) = 1

\* the number of times the body of submitBet's do-while runs
RECURSIVE BetScanSteps(_, _, _)
BetScanSteps(f, idx, safety) ==
  LET nextIdx == (idx + 1) % Len(turnOrder)
  IN IF safety + 1 > Len(turnOrder) * 2 THEN safety + 1
     ELSE IF f[turnOrder[nextIdx + 1]] THEN BetScanSteps(f, nextIdx, safety + 1)
     ELSE safety + 1

\* a scan that stops at the next seat, folded or not
BetScan_NoFoldedSkip(f, idx, safety) == (idx + 1) % Len(turnOrder)

\* the do-while seat scan of submitBet, from seat idx after `safety` steps
RECURSIVE BetScan(_, _, _)
BetScan(f, idx, safety) ==
  LET nextIdx == (idx + 1) % Len(turnOrder)
  IN IF safety + 1 > Len(turnOrder) * 2 THEN nextIdx
     ELSE IF f[turnOrder[nextIdx + 1]] THEN BetScan(f, nextIdx, safety + 1)
     ELSE nextIdx

Outcome(o, p, a, m, res) ==
  [op |-> o, player |-> p, arg |-> a, amount |-> m, outcome |-> res]

SubmitBet(p, action, amount) ==
  /\ Playing
  /\ UNCHANGED pending
  /\ IF ~BetValid(p, action, amount)
     THEN /\ UNCHANGED record
          /\ last' = Outcome("submitBet", p, action, amount, "rejected")
     ELSE IF BettingComplete(BetFolded(p, action), BetBet(p, action, amount),
                             BetCurrentBet(p, action, amount), BetActed(p, action))
     THEN /\ AdvancePhase
          /\ last' = Outcome("submitBet", p, action, amount, "advanced")
     ELSE /\ chips' = BetChips(p, action, amount)
          /\ bet' = BetBet(p, action, amount)
          /\ folded' = BetFolded(p, action)
          /\ pot' = BetPot(p, action, amount)
          /\ currentBet' = BetCurrentBet(p, action, amount)
          /\ acted' = BetActed(p, action)
          /\ currentTurn' = BetScan(BetFolded(p, action), currentTurn, 0)
          /\ UNCHANGED <<hand, hasActed, snipedPrediction, phase, turnOrder,
                         communityCards, roundNumber, roundResults>>
          /\ last' = Outcome("submitBet", p, action, amount, "written")

(***************************************************************************)
(* foldPlayer                                                              *)
(***************************************************************************)
\* a scan that stays on the seat it starts from
SkipScan_NoSkip(skip, idx, safety) == idx

\* the while seat scan of foldPlayer and submitSnipe over the seats to skip
RECURSIVE SkipScan(_, _, _)
SkipScan(skip, idx, safety) ==
  IF skip[turnOrder[idx + 1]] /\ safety < Len(turnOrder)
  THEN SkipScan(skip, (idx + 1) % Len(turnOrder), safety + 1)
  ELSE idx

FoldValid(p) == turnOrder[currentTurn + 1] = p

FoldPlayer(p) ==
  /\ Playing
  /\ UNCHANGED pending
  /\ IF ~FoldValid(p)
     THEN /\ UNCHANGED record
          /\ last' = Outcome("foldPlayer", p, Null, 0, "rejected")
     ELSE LET f == [folded EXCEPT ![p] = TRUE]
              h == [hasActed EXCEPT ![p] = TRUE]
          IN /\ folded' = f
             /\ hasActed' = h
             /\ currentTurn' =
                  SkipScan([q \in Seats |-> f[q] \/ h[q]],
                           (currentTurn + 1) % Len(turnOrder), 0)
             /\ UNCHANGED <<chips, hand, bet, snipedPrediction, phase, turnOrder,
                            communityCards, pot, currentBet, acted, roundNumber,
                            roundResults>>
             /\ last' = Outcome("foldPlayer", p, Null, 0, "written")

(***************************************************************************)
(* submitSnipe                                                             *)
(***************************************************************************)
\* submitSnipe's validation without the test of an existing prediction
SnipeValid_NoDuplicateTest(p, prediction) ==
  /\ phase = "snipe"
  /\ turnOrder[currentTurn + 1] = p
  /\ ~folded[p]
  /\ prediction \in validPredictions

\* the validation of submitSnipe: TRUE when the prediction goes on to be set
SnipeValid(p, prediction) ==
  /\ phase = "snipe"
  /\ turnOrder[currentTurn + 1] = p
  /\ ~folded[p]
  /\ snipedPrediction[p] = Null
  /\ prediction \in validPredictions

\* every player, folded or not, has a prediction
AllSniped_FoldedToo(sp) == \A q \in DOMAIN sp : sp[q] # Null

\* every non-folded player has a prediction in submitSnipe's copy
AllSniped(sp) == \A q \in DOMAIN sp : ~folded[q] => sp[q] # Null

SubmitSnipe(p, prediction) ==
  /\ Playing
  /\ UNCHANGED pending
  /\ IF ~SnipeValid(p, prediction)
     THEN /\ UNCHANGED record
          /\ last' = Outcome("submitSnipe", p, prediction, 0, "rejected")
     ELSE LET sp == [snipedPrediction EXCEPT ![p] = prediction]
          IN IF AllSniped(sp)
             THEN /\ ResolveBets
                  /\ last' = Outcome("submitSnipe", p, prediction, 0, "resolved")
             ELSE /\ snipedPrediction' = sp
                  /\ currentTurn' =
                       SkipScan([q \in Seats |-> folded[q] \/ sp[q] # Null],
                                (currentTurn + 1) % Len(turnOrder), 0)
                  /\ UNCHANGED <<chips, hand, bet, folded, hasActed, phase,
                                 turnOrder, communityCards, pot, currentBet, acted,
                                 roundNumber, roundResults>>
                  /\ last' = Outcome("submitSnipe", p, prediction, 0, "written")

\* only a raise is given an amount; the other actions leave it out (0 here)
AmountsFor(action) == IF action = "raise" THEN Amounts ELSE {0}
TableAmountsFor(action) == IF action = "raise" THEN TableAmounts ELSE {0}

Next ==
  \/ StartGame
  \/ \E p \in Players : \E action \in Actions : \E amount \in AmountsFor(action) :
       SubmitBet(p, action, amount)
  \/ \E p \in Players : FoldPlayer(p)
  \/ \E p \in Players : \E prediction \in Predictions : SubmitSnipe(p, prediction)

Spec == Init /\ [][Next]_vars

(***************************************************************************)
(* evaluateHand on its own: the argument is drawn from the hands of up to  *)
(* 6 cards (2 hole cards and 4 community cards) a deck can give, in every  *)
(* order; `last` holds the call, its argument and its result               *)
(***************************************************************************)
HandInputs ==
  {c \in UNION {[1..n -> 1..MaxHandRank] : n \in 0..6} :
     \A v \in 1..MaxHandRank : CountOf(c, v) <= DeckCopies}

InitHand ==
  /\ InitRecord
  /\ pending = <<>>
  /\ \E cards \in HandInputs :
       last = [op |-> "evaluateHand", player |-> 0, arg |-> cards, amount |-> 0,
               outcome |-> Null]

EvaluateHand ==
  /\ last.op = "evaluateHand" /\ last.outcome = Null
  /\ last' = [last EXCEPT !.outcome = evaluateHand(last.arg)[1],
                          !.amount = evaluateHand(last.arg)[2]]
  /\ UNCHANGED <<record, pending>>

NextHand == EvaluateHand

SpecHand == InitHand /\ [][NextHand]_vars
(***************************************************************************)
(* submitBet with the get() and the update() of advancePhase as steps of   *)
(* their own.  A submitBet that finds the phase complete writes nothing    *)
(* and calls advancePhase, so until that call's update() a further         *)
(* submitBet reads the same record.  A submitBet that does not complete    *)
(* the phase is taken as one step.                                         *)
(***************************************************************************)
\* what get() gives: the record as it is when it is read
Snapshot ==
  [chips |-> chips, hand |-> hand, bet |-> bet, folded |-> folded,
   hasActed |-> hasActed, snipedPrediction |-> snipedPrediction,
   phase |-> phase, currentTurn |-> currentTurn, turnOrder |-> turnOrder,
   communityCards |-> communityCards, pot |-> pot, currentBet |-> currentBet,
   acted |-> acted, roundNumber |-> roundNumber, roundResults |-> roundResults]

\* submitBet up to its call of advancePhase or its update()
BetCall(p, action, amount) ==
  /\ Playing
  /\ BetValid(p, action, amount)
  /\ IF BettingComplete(BetFolded(p, action), BetBet(p, action, amount),
                        BetCurrentBet(p, action, amount), BetActed(p, action))
     THEN /\ Len(pending) < MaxCalls
          /\ pending' = Append(pending, [pc |-> "called", from |-> phase,
                                          snap |-> Null])
          /\ UNCHANGED record
          /\ last' = Outcome("submitBet", p, action, amount, "advanced")
     ELSE /\ chips' = BetChips(p, action, amount)
          /\ bet' = BetBet(p, action, amount)
          /\ folded' = BetFolded(p, action)
          /\ pot' = BetPot(p, action, amount)
          /\ currentBet' = BetCurrentBet(p, action, amount)
          /\ acted' = BetActed(p, action)
          /\ currentTurn' = BetScan(BetFolded(p, action), currentTurn, 0)
          /\ UNCHANGED <<hand, hasActed, snipedPrediction, phase, turnOrder,
                         communityCards, roundNumber, roundResults, pending>>
          /\ last' = Outcome("submitBet", p, action, amount, "written")

\* the get() of the i-th advancePhase call
AdvanceGet(i) ==
  /\ i <= Len(pending)
  /\ pending[i].pc = "called"
  /\ pending' = [pending EXCEPT ![i].pc = "read", ![i].snap = Snapshot]
  /\ UNCHANGED record
  /\ last' = Outcome("advancePhase", 0, Null, 0, "read")

\* advancePhase after its get() gave s: the update() of the record it read,
\* or in snipe resolveBets, which reads the record again
AdvanceWrite(s) ==
  IF s.phase = "snipe" THEN ResolveBets
  ELSE
    /\ hasActed' = [q \in Seats |-> FALSE]
    /\ currentBet' = 0
    /\ currentTurn' = 0
    /\ acted' = {}
    /\ IF s.phase = "bet1"
       THEN /\ \E r1 \in CardRandom :
                 \E r2 \in CardRandom :
                   LET remaining == RemainingDeck(s.hand, s.communityCards)
                       d1 == getRandomCard(remaining, r1)
                       d2 == getRandomCard(d1[2], r2)
                   IN communityCards' = s.communityCards \o <<d1[1], d2[1]>>
            /\ phase' = "bet2"
       ELSE /\ communityCards' = s.communityCards
            /\ phase' = "snipe"
    /\ chips' = s.chips
    /\ hand' = s.hand
    /\ bet' = s.bet
    /\ folded' = s.folded
    /\ snipedPrediction' = s.snipedPrediction
    /\ turnOrder' = s.turnOrder
    /\ pot' = s.pot
    /\ roundNumber' = s.roundNumber
    /\ roundResults' = s.roundResults

\* the rest of the i-th advancePhase call
AdvanceUpdate(i) ==
  /\ i <= Len(pending)
  /\ pending[i].pc = "read"
  /\ pending' = [pending EXCEPT ![i].pc = "done"]
  /\ last' = Outcome("advancePhase", 0, Null, 0, "written")
  /\ AdvanceWrite(pending[i].snap)

NextRace ==
  \/ \E p \in Players : \E action \in Actions : \E amount \in AmountsFor(action) :
       BetCall(p, action, amount)
  \/ \E i \in 1..MaxCalls : AdvanceGet(i)
  \/ \E i \in 1..MaxCalls : AdvanceUpdate(i)

SpecRace == Init /\ [][NextRace]_vars

(***************************************************************************)
(* Clients.  Up to MaxOps operations are in flight at once, issued by any  *)
(* of the players; the get() and the update() of an operation are separate *)
(* steps, and so are the get() and the update() of the advancePhase it     *)
(* calls.  Between its get() and its update() an operation works on its    *)
(* private copy only, so the copy it will write is fixed by the snapshot   *)
(* it read: pending[i] holds the player, the snapshot read (seen), the     *)
(* copy to write (copy) and the position (pc) of the i-th operation; last  *)
(* is the last write made to the record.                                   *)
(***************************************************************************)
Idle ==
  [pc |-> "idle", player |-> 0, from |-> Null, snap |-> Null, seen |-> Null,
   copy |-> Null]

InitClients ==
  /\ InitRecord
  /\ pending = [i \in 1..MaxOps |-> Idle]
  /\ last = [op |-> "startGame", player |-> 0, arg |-> Null, amount |-> 0,
             outcome |-> "written"]

\* update(gameRef, { dealer, players }) of the copy c
WriteCopy(c) ==
  /\ chips' = c.chips
  /\ hand' = c.hand
  /\ bet' = c.bet
  /\ folded' = c.folded
  /\ hasActed' = c.hasActed
  /\ snipedPrediction' = c.snipedPrediction
  /\ phase' = c.phase
  /\ currentTurn' = c.currentTurn
  /\ turnOrder' = c.turnOrder
  /\ communityCards' = c.communityCards
  /\ pot' = c.pot
  /\ currentBet' = c.currentBet
  /\ acted' = c.acted
  /\ roundNumber' = c.roundNumber
  /\ roundResults' = c.roundResults

\* a new operation takes the first entry that holds no operation in flight
Free(i) ==
  /\ pending[i].pc = "idle"
  /\ \A k \in 1..(i - 1) : pending[k].pc # "idle"

\* the entry of an operation of player p that read Snapshot and goes on to `pc`
Got(p, pc, c) ==
  [pc |-> pc, player |-> p, from |-> phase, snap |-> Null, seen |-> Snapshot,
   copy |-> c]

\* submitBet from its get() up to its update() or its call of advancePhase
BetGet(i, p, action, amount) ==
  /\ Playing
  /\ Free(i)
  /\ UNCHANGED <<record, last>>
  /\ IF ~BetValid(p, action, amount)
     THEN UNCHANGED pending
     ELSE IF BettingComplete(BetFolded(p, action), BetBet(p, action, amount),
                             BetCurrentBet(p, action, amount), BetActed(p, action))
     THEN pending' = [pending EXCEPT ![i] = Got(p, "called", Null)]
     ELSE pending' = [pending EXCEPT ![i] =
            Got(p, "got", [Snapshot EXCEPT
                             !.chips = BetChips(p, action, amount),
                             !.bet = BetBet(p, action, amount),
                             !.folded = BetFolded(p, action),
                             !.pot = BetPot(p, action, amount),
                             !.currentBet = BetCurrentBet(p, action, amount),
                             !.acted = BetActed(p, action),
                             !.currentTurn =
                               BetScan(BetFolded(p, action), currentTurn, 0)])]

\* foldPlayer from its get() up to its update()
FoldGet(i, p) ==
  /\ Playing
  /\ Free(i)
  /\ UNCHANGED <<record, last>>
  /\ IF ~FoldValid(p)
     THEN UNCHANGED pending
     ELSE LET f == [folded EXCEPT ![p] = TRUE]
              h == [hasActed EXCEPT ![p] = TRUE]
          IN pending' = [pending EXCEPT ![i] =
               Got(p, "got", [Snapshot EXCEPT
                                !.folded = f,
                                !.hasActed = h,
                                !.currentTurn =
                                  SkipScan([q \in Seats |-> f[q] \/ h[q]],
                                           (currentTurn + 1) % Len(turnOrder),
                                           0)])]

\* submitSnipe from its get() up to its update() or its call of resolveBets
SnipeGet(i, p, prediction) ==
  /\ Playing
  /\ Free(i)
  /\ UNCHANGED <<record, last>>
  /\ IF ~SnipeValid(p, prediction)
     THEN UNCHANGED pending
     ELSE LET sp == [snipedPrediction EXCEPT ![p] = prediction]
          IN IF AllSniped(sp)
             THEN pending' = [pending EXCEPT ![i] = Got(p, "resolving", Null)]
             ELSE pending' = [pending EXCEPT ![i] =
                    Got(p, "got", [Snapshot EXCEPT
                                     !.snipedPrediction = sp,
                                     !.currentTurn =
                                       SkipScan([q \in Seats |->
                                                   folded[q] \/ sp[q] # Null],
                                                (currentTurn + 1) % Len(turnOrder),
                                                0)])]

\* the update() that ends the i-th operation
ClientUpdate(i) ==
  /\ pending[i].pc = "got"
  /\ WriteCopy(pending[i].copy)
  /\ pending' = [pending EXCEPT ![i] = Idle]
  /\ last' = Outcome("update", pending[i].player, Null, 0, "written")

\* the get() of the advancePhase called by the i-th operation
ClientAdvanceGet(i) ==
  /\ pending[i].pc = "called"
  /\ pending' = [pending EXCEPT ![i].pc = "read", ![i].snap = Snapshot]
  /\ UNCHANGED <<record, last>>

\* the rest of the advancePhase called by the i-th operation
ClientAdvanceUpdate(i) ==
  /\ pending[i].pc = "read"
  /\ AdvanceWrite(pending[i].snap)
  /\ pending' = [pending EXCEPT ![i] = Idle]
  /\ last' = Outcome("advancePhase", pending[i].player, Null, 0, "written")

\* resolveBets, startNewRound and startGame called by the i-th operation
ClientResolve(i) ==
  /\ pending[i].pc = "resolving"
  /\ ResolveBets
  /\ pending' = [pending EXCEPT ![i] = Idle]
  /\ last' = Outcome("resolveBets", pending[i].player, Null, 0, "written")

NextClients ==
  \/ \E i \in 1..MaxOps : \E p \in Players : \E action \in Actions :
       \E amount \in TableAmountsFor(action) : BetGet(i, p, action, amount)
  \/ \E i \in 1..MaxOps : \E p \in Players : FoldGet(i, p)
  \/ \E i \in 1..MaxOps : \E p \in Players : \E prediction \in TablePredictions :
       SnipeGet(i, p, prediction)
  \/ \E i \in 1..MaxOps : ClientUpdate(i)
  \/ \E i \in 1..MaxOps : ClientResolve(i)
  \/ \E i \in 1..MaxOps : ClientAdvanceGet(i)
  \/ \E i \in 1..MaxOps : ClientAdvanceUpdate(i)

SpecClients == InitClients /\ [][NextClients]_vars

(***************************************************************************)
(* The three-player table: the same operations on a record with the        *)
(* player keys TablePlayers, so that a seat scan has seats to skip.        *)
(***************************************************************************)
\* the record after the lobby has seated three players and startGame has run
InitTable ==
  /\ chips = [p \in TablePlayers |-> StartChips]
  /\ folded = [p \in TablePlayers |-> FALSE]
  /\ bet = [p \in TablePlayers |-> 0]
  /\ snipedPrediction = [p \in TablePlayers |-> Null]
  /\ hasActed = [p \in TablePlayers |-> FALSE]
  /\ \E cards \in TableDeals :
       /\ hand = [p \in TablePlayers |-> <<cards[2 * p + 1], cards[2 * p + 2]>>]
       /\ communityCards = <<cards[1], cards[2]>>
  /\ turnOrder \in TableTurnOrders
  /\ currentBet = 0
  /\ pot = 0
  /\ phase = "bet1"
  /\ currentTurn = 0
  /\ roundNumber = 1
  /\ roundResults = <<>>
  /\ acted = {}
  /\ pending = <<>>
  /\ last = [op |-> "startGame", player |-> 0, arg |-> Null, amount |-> 0,
             outcome |-> "written"]

NextTable ==
  \/ StartGame
  \/ \E p \in TablePlayers : \E action \in Actions :
       \E amount \in TableAmountsFor(action) : SubmitBet(p, action, amount)
  \/ \E p \in TablePlayers : FoldPlayer(p)
  \/ \E p \in TablePlayers : \E prediction \in TablePredictions :
       SubmitSnipe(p, prediction)

SpecTable == InitTable /\ [][NextTable]_vars

(***************************************************************************)
(* Properties                                                              *)
(***************************************************************************)
BettingPhase == phase \in {"bet1", "bet2"}

\* the step ran operation o and it passed o's validation
Ran(o) == last'.op = o /\ last'.outcome # "rejected"

\* C1: chip conservation within a round: no step that stays in the round
\* (roundNumber unchanged) changes the sum of all players' chips plus pot
C1_ChipsPlusPotConserved ==
  [][roundNumber' = roundNumber => TotalChips' + pot' = TotalChips + pot]_vars

\* a call that moved chips into the pot has been written in Bet2
C1_Witness ==
  /\ phase = "bet2"
  /\ last.op = "submitBet" /\ last.arg = "call" /\ last.outcome = "written"
  /\ pot > 0 /\ TotalChips < N * StartChips

\* C2: every accepted call's chip movement is kept, also when the call
\* completes the phase: the next state has the caller's chips lower by toCall
\* and pot higher by toCall; in particular, from 60 chips each, after a raise
\* to 10 the call starts Bet2 with chips 50 and 50, pot 20, currentBet 0 and
\* 4 community cards
C2_CallMovementKept ==
  [][\A p \in Players :
       (Ran("submitBet") /\ last'.arg = "call" /\ last'.player = p) =>
          /\ chips'[p] = chips[p] - toCall(p) /\ pot' = pot + toCall(p)
          /\ (/\ phase = "bet1" /\ currentBet = 10 /\ pot = 10
              /\ chips[p] = 60 /\ bet[p] = 0
              /\ \A q \in Players \ {p} : chips[q] = 50 /\ bet[q] = 10)
             => /\ phase' = "bet2"
                /\ \A q \in Players : chips'[q] = 50
                /\ pot' = 20
                /\ currentBet' = 0
                /\ Len(communityCards') = 4]_vars

\* C3: when a round resolves with a non-empty eligible set, the next round
\* starts with the winner's chips raised by the full pot and every other
\* player's chips unchanged, so the chips after equal chips plus pot before
C3_WinnerCollectsPot ==
  [][(Ran("submitSnipe") /\ last'.outcome = "resolved" /\ Eligible # {}) =>
        /\ chips' = [chips EXCEPT ![WinnerId] = @ + pot]
        /\ TotalChips' = TotalChips + pot]_vars

\* C4: when a round resolves with an empty eligible set, every player, folded
\* or not, is credited floor(pot / player count), and the chips of the next
\* round are chips plus pot less pot mod player count
C4_SplitPot ==
  [][(Ran("submitSnipe") /\ last'.outcome = "resolved" /\ Eligible = {}) =>
        /\ chips' = [q \in Players |-> chips[q] + (pot \div N)]
        /\ TotalChips' = TotalChips + pot - (pot % N)]_vars

\* the cases in which submitBet(p, action, amount) is to be rejected
BetRejectCase(p, action, amount) ==
  \/ Current # p
  \/ folded[p]
  \/ phase = "snipe"
  \/ action = "check" /\ currentBet - bet[p] > 0
  \/ action = "call" /\ chips[p] < currentBet - bet[p]
  \/ action = "raise" /\ (chips[p] < amount - bet[p] \/ amount <= currentBet)

\* C5: submitBet leaves the record unchanged when the caller is not the
\* current player, or is folded, or the phase is snipe, or the action fails
\* its validity test
C5_RejectedBetNoChange ==
  [][(last'.op = "submitBet"
        /\ BetRejectCase(last'.player, last'.arg, last'.amount))
       => UNCHANGED record]_vars

\* a submitBet of the current player, who is folded, has been rejected
C5_Witness ==
  /\ last.op = "submitBet" /\ last.outcome = "rejected"
  /\ BettingPhase
  /\ Current = last.player /\ folded[last.player]

\* C6: foldPlayer re-validates the caller's fold status and the phase: it
\* changes nothing when the caller is already folded or the phase is snipe
C6_FoldPlayerRevalidates ==
  [][(last'.op = "foldPlayer" /\ (folded[last'.player] \/ phase = "snipe"))
       => UNCHANGED record]_vars

\* C7: a check is accepted only if the player's bet equals currentBet in the
\* state it is applied to; otherwise, also with bet above currentBet, it is
\* rejected with no state change
C7_CheckOnlyWhenMatched ==
  [][\A p \in Players :
       (last'.op = "submitBet" /\ last'.arg = "check" /\ last'.player = p
          /\ bet[p] # currentBet)
       => last'.outcome = "rejected" /\ UNCHANGED record]_vars

\* C8: a call is accepted only if toCall = currentBet - bet > 0 and chips >=
\* toCall; an accepted call deducts exactly toCall from the caller's chips and
\* adds exactly toCall to the caller's bet and to pot
C8_CallContract ==
  [][\A p \in Players :
       (Ran("submitBet") /\ last'.arg = "call" /\ last'.player = p) =>
          /\ toCall(p) > 0 /\ chips[p] >= toCall(p)
          /\ last'.outcome = "written" =>
               /\ chips'[p] = chips[p] - toCall(p)
               /\ bet'[p] = bet[p] + toCall(p)
               /\ pot' = pot + toCall(p)]_vars

\* C9: raise strictness: a raise to A by the current, non-folded player in a
\* betting phase is accepted iff A > currentBet and A - bet > currentBet - bet
\* and chips >= A - bet; a raise to currentBet or lower is rejected with no
\* state change
C9_RaiseStrictness ==
  [][\A p \in Players : \A A \in Amounts :
       (last'.op = "submitBet" /\ last'.arg = "raise" /\ last'.player = p
          /\ last'.amount = A /\ Current = p /\ ~folded[p] /\ BettingPhase)
       => /\ last'.outcome # "rejected" <=>
               (/\ A > currentBet
                /\ A - bet[p] > currentBet - bet[p]
                /\ chips[p] >= A - bet[p])
          /\ A <= currentBet => UNCHANGED record]_vars

\* a raise to exactly currentBet by the current player has been rejected
C9_Witness ==
  /\ last.op = "submitBet" /\ last.arg = "raise" /\ last.outcome = "rejected"
  /\ BettingPhase /\ Current = last.player /\ ~folded[last.player]
  /\ currentBet > 0 /\ last.amount = currentBet
  /\ chips[last.player] >= last.amount - bet[last.player]

\* C10: an accepted raise to A deducts A - bet from the raiser's chips and adds
\* it to pot; while the phase lasts it leaves the raiser's bet and currentBet
\* at A and the acted-set holding only the raiser
C10_RaiseEffect ==
  [][\A p \in Players :
       (Ran("submitBet") /\ last'.arg = "raise" /\ last'.player = p) =>
          /\ chips'[p] = chips[p] - (last'.amount - bet[p])
          /\ pot' = pot + (last'.amount - bet[p])
          /\ phase' = phase =>
               /\ bet'[p] = last'.amount
               /\ currentBet' = last'.amount
               /\ acted' = {p}]_vars

\* the completion condition as stated: every non-folded player with chips
\* has acted and matched currentBet, or one non-folded player remains
StatedComplete(f, c, b, cb, a) ==
  \/ \A q \in Players : (~f[q] /\ c[q] > 0) => (q \in a /\ b[q] = cb)
  \/ Cardinality({q \in Players : ~f[q]}) = 1

\* C11: after every accepted betting action the phase completes exactly when
\* every non-folded player with chips > 0 has acted and has bet = currentBet,
\* or one non-folded player remains; a non-folded player with 0 chips does
\* not block completion
C11_CompletionIgnoresBrokePlayers ==
  [][\A p \in Players :
       (Ran("submitBet") /\ last'.player = p) =>
          (phase' # phase <=>
             StatedComplete(BetFolded(p, last'.arg),
                            BetChips(p, last'.arg, last'.amount),
                            BetBet(p, last'.arg, last'.amount),
                            BetCurrentBet(p, last'.arg, last'.amount),
                            BetActed(p, last'.arg)))]_vars

\* C12: while at least two non-folded players remain, the phase does not
\* advance out of Bet1 or Bet2 when, with the accepted action applied, some
\* non-folded player has bet # currentBet or has not acted in the phase
C12_NoAdvanceWhileUnmatched ==
  [][(BettingPhase /\ phase' # phase /\ roundNumber' = roundNumber) =>
       \E p \in Players :
         /\ Ran("submitBet") /\ last'.player = p
         /\ LET f == BetFolded(p, last'.arg)
                b == BetBet(p, last'.arg, last'.amount)
                cb == BetCurrentBet(p, last'.arg, last'.amount)
                a == BetActed(p, last'.arg)
            IN Cardinality({q \in Players : ~f[q]}) >= 2 =>
                 \A q \in Players : ~f[q] => (q \in a /\ b[q] = cb)]_vars

\* Bet1 has been left with two non-folded players by a call or a check
C12_Witness ==
  /\ phase = "bet2"
  /\ last.op = "submitBet" /\ last.outcome = "advanced"
  /\ last.arg \in {"call", "check"}
  /\ \A q \in Players : ~folded[q]

\* C13: when a betting phase completes, the first state of the next phase has
\* bet = 0 for every non-folded player, currentBet = 0 and an empty acted-set
C13_BetsClearedOnCompletion ==
  [][(BettingPhase /\ phase' # phase /\ roundNumber' = roundNumber) =>
       /\ \A q \in Players : ~folded'[q] => bet'[q] = 0
       /\ currentBet' = 0
       /\ acted' = {}]_vars

\* C14: after Bet1 has completed through a raise followed by a call, the
\* checks the non-folded players submit in turn in Bet2 (no raise made yet,
\* nobody folded, each player checking once) are all accepted, and the check
\* of the last of them puts the phase to Snipe
C14_ChecksReachSnipe ==
  [][\A p \in Players :
       (/\ phase = "bet2" /\ currentBet = 0 /\ pot > 0
        /\ \A q \in Players : ~folded[q]
        /\ Current = p /\ p \notin acted
        /\ last'.op = "submitBet" /\ last'.arg = "check" /\ last'.player = p)
       => /\ last'.outcome # "rejected"
          /\ acted \cup {p} = Players => phase' = "snipe"]_vars

\* C15: the phase changes only along bet1 -> bet2 -> snipe -> bet1 of a new
\* round, and roundNumber changes only on the snipe -> bet1 step, where it
\* increases by exactly 1
C15_PhaseOrder ==
  [][/\ phase' # phase =>
          <<phase, phase'>> \in
            {<<"bet1", "bet2">>, <<"bet2", "snipe">>, <<"snipe", "bet1">>}
     /\ roundNumber' # roundNumber =>
          /\ phase = "snipe" /\ phase' = "bet1"
          /\ roundNumber' = roundNumber + 1]_vars

\* C16: in every state of a round in progress (some player is not folded),
\* also the first state of Bet2 and of Snipe, turnOrder[currentTurn] is a
\* player who is not folded and has chips > 0
C16_CurrentPlayerCanAct ==
  (\E q \in Players : ~folded[q]) => (~folded[Current] /\ chips[Current] > 0)

\* C17: within a round communityCards has exactly 2 cards throughout Bet1 and
\* exactly 4 throughout Bet2 and Snipe, it never shrinks and its earlier cards
\* never change, and the record resolution reads has exactly 4 of them
C17_CommunityCards ==
  /\ [](Len(communityCards) = IF phase = "bet1" THEN 2 ELSE 4)
  /\ [][/\ roundNumber' = roundNumber =>
             /\ Len(communityCards') >= Len(communityCards)
             /\ SubSeq(communityCards', 1, Len(communityCards)) = communityCards
        /\ last'.outcome = "resolved" => Len(communityCards) = 4]_vars

\* Snipe has been reached with the two cards of Bet1 followed by two new ones
C17_Witness ==
  /\ phase = "snipe"
  /\ Len(communityCards) = 4
  /\ \E cards \in Deals : SubSeq(communityCards, 1, 2) = <<cards[1], cards[2]>>

\* the cases in which submitSnipe(p, prediction) is to be rejected
SnipeRejectCase(p, prediction) ==
  \/ phase # "snipe"
  \/ Current # p
  \/ folded[p]
  \/ snipedPrediction[p] # Null
  \/ prediction \notin validPredictions

\* C18: submitSnipe leaves the record unchanged when the phase is not snipe,
\* the caller is not the current player, is folded or already has a
\* prediction, or the prediction is not one of the seven hand categories; so
\* within a round a recorded prediction is never overwritten
C18_RejectedSnipeNoChange ==
  [][/\ (last'.op = "submitSnipe" /\ SnipeRejectCase(last'.player, last'.arg))
          => UNCHANGED record
     /\ roundNumber' = roundNumber =>
          \A q \in Players :
            snipedPrediction[q] # Null =>
              snipedPrediction'[q] = snipedPrediction[q]]_vars

\* the current player, who has a prediction, has had another one rejected
C18_Witness ==
  /\ phase = "snipe"
  /\ last.op = "submitSnipe" /\ last.outcome = "rejected"
  /\ Current = last.player /\ ~folded[last.player]
  /\ last.arg \in validPredictions
  /\ snipedPrediction[last.player] \notin {Null, last.arg}

\* C19: in Snipe, an accepted submitSnipe after which every non-folded player
\* holds a prediction resolves the round in the same operation: the next
\* state is Bet1 of a fresh round, with roundNumber one higher, pot 0,
\* currentBet 0, 2 community cards and every player unfolded with bet 0 and
\* no prediction
C19_LastSnipeStartsFreshRound ==
  [][\A p \in Players :
       (/\ Ran("submitSnipe") /\ last'.player = p
        /\ \A q \in Players \ {p} : ~folded[q] => snipedPrediction[q] # Null)
       => /\ phase' = "bet1"
          /\ roundNumber' = roundNumber + 1
          /\ pot' = 0 /\ currentBet' = 0
          /\ Len(communityCards') = 2
          /\ \A q \in Players :
               ~folded'[q] /\ bet'[q] = 0 /\ snipedPrediction'[q] = Null]_vars

\* a round has been resolved by the last prediction and a next one set up
C19_Witness ==
  /\ last.op = "submitSnipe" /\ last.outcome = "resolved"
  /\ last.arg \in validPredictions
  /\ phase = "bet1" /\ roundNumber > 1

\* C20: at resolution a non-folded player P is not the winner whenever the
\* prediction submitted in the round by some non-folded player, the last one
\* submitted and P's own included, equals P's hand category
C20_SnipedNeverWins ==
  [][\A P \in Players :
       (/\ Ran("submitSnipe") /\ last'.outcome = "resolved"
        /\ ~folded[P]
        /\ \E q \in Players :
             /\ ~folded[q]
             /\ HandOf(P)[1] =
                  IF q = last'.player THEN last'.arg ELSE snipedPrediction[q])
       => WinnerId # P]_vars

\* the players sniped by the predictions submitted in the round, the one
\* submitted by the resolving submitSnipe included
SubmittedSniped ==
  LET sp == [snipedPrediction EXCEPT ![last'.player] = last'.arg]
  IN {q \in ActivePlayers :
        \E sniper \in ActivePlayers : sp[sniper] = HandOf(q)[1]}

\* C21: when the eligible set is non-empty the winner of the resolution is an
\* eligible (non-folded, not sniped) player with the highest score among the
\* eligible players, the first of them in iteration order; a folded or
\* sniped player is never the winner
C21_WinnerIsBestEligible ==
  [][(Ran("submitSnipe") /\ last'.outcome = "resolved") =>
       LET eligible == ActivePlayers \ SubmittedSniped
       IN /\ eligible # {} =>
               /\ WinnerId \in eligible
               /\ \A q \in eligible :
                    /\ HandOf(q)[2] <= HandOf(WinnerId)[2]
                    /\ HandOf(q)[2] = HandOf(WinnerId)[2] => WinnerId <= q
          /\ \A q \in Players :
               (folded[q] \/ q \in SubmittedSniped) => WinnerId # q]_vars

\* C22: history is append-only and accumulates: each resolution appends
\* exactly one RoundResult with the resolved round's roundNumber, winner and
\* pot to roundResults, and no earlier entry is changed or removed
C22_HistoryAccumulates ==
  [][/\ (Ran("submitSnipe") /\ last'.outcome = "resolved") =>
          roundResults' = Append(roundResults, RoundResult)
     /\ Len(roundResults') >= Len(roundResults)
     /\ SubSeq(roundResults', 1, Len(roundResults)) = roundResults]_vars

\* C23: invoking startGame on a game that has chip balances leaves every
\* player's chips as they were, for every balance including 0
C23_StartGameKeepsChips ==
  [][last'.op = "startGame" => chips' = chips]_vars

\* the category and score by the stated priority rule, from the number of
\* cards of each rank
StatedHand(cards) ==
  LET cnt(v) == CountOf(cards, v)
      Ranks == 1..MaxRank
  IN IF \E v \in Ranks : cnt(v) = 4 THEN <<"four of a kind", 7>>
     ELSE IF \E v, w \in Ranks : v # w /\ cnt(v) = 3 /\ cnt(w) = 2
       THEN <<"full house", 6>>
     ELSE IF \E lo \in Ranks : \A k \in 0..4 : cnt(lo + k) >= 1
       THEN <<"straight", 5>>
     ELSE IF \E v \in Ranks : cnt(v) = 3 THEN <<"three of a kind", 4>>
     ELSE IF Cardinality({v \in Ranks : cnt(v) = 2}) = 2 THEN <<"two pair", 3>>
     ELSE IF \E v \in Ranks : cnt(v) = 2 THEN <<"pair", 2>>
     ELSE <<"high card", 1>>

\* C24: for every hand of up to 6 cards, in every order, evaluateHand returns
\* the category of the priority rule four of a kind > full house > straight >
\* three of a kind > two pair (exactly two ranks with count 2) > pair > high
\* card, with score 7, 6, 5, 4, 3, 2, 1
C24_EvaluateHandRule ==
  (last.op = "evaluateHand" /\ last.outcome # Null) =>
     <<last.outcome, last.amount>> = StatedHand(last.arg)

\* a hand of three pairs has been evaluated as a pair
C24_Witness ==
  /\ last.op = "evaluateHand" /\ last.outcome = "pair"
  /\ Cardinality({v \in 1..MaxHandRank : CountOf(last.arg, v) = 2}) = 3

\* C25: no update of the record shows a round resolved but not reset: after
\* every update made in Snipe either the phase is still snipe, some
\* non-folded player lacks a prediction and the pot is undistributed, or the
\* record is the freshly set-up next round
C25_NoResolvedUnresetState ==
  [][(phase = "snipe" /\ record' # record) =>
       \/ /\ phase' = "snipe" /\ roundNumber' = roundNumber
          /\ \E q \in Players : ~folded'[q] /\ snipedPrediction'[q] = Null
          /\ pot' = pot /\ chips' = chips
       \/ /\ phase' = "bet1" /\ roundNumber' = roundNumber + 1
          /\ pot' = 0 /\ currentBet' = 0
          /\ Len(communityCards') = 2
          /\ \A q \in Players :
               ~folded'[q] /\ bet'[q] = 0 /\ snipedPrediction'[q] = Null]_vars

\* C26: when submitBet invocations of the same phase-completing action read
\* the same record and the get and update steps of their advancePhase calls
\* interleave, the phase advances by at most one step: every update that
\* changes the phase is made by a call issued in the phase it leaves, so
\* Bet1 never leads on to Snipe without a Bet2 action
C26_StaleCallsAdvanceOnce ==
  [][phase' # phase =>
       \E i \in 1..Len(pending) :
         /\ pending[i].pc = "read" /\ pending'[i].pc = "done"
         /\ pending[i].from = phase]_vars

\* C27: within a betting phase currentBet never decreases from one state to
\* the next, it is 0 in the first state of every phase, and it changes only
\* through an accepted raise, which sets it to the raise amount
C27_CurrentBetMonotone ==
  /\ currentBet = 0
  /\ [][/\ (phase' # phase \/ roundNumber' # roundNumber) => currentBet' = 0
        /\ (phase' = phase /\ roundNumber' = roundNumber) =>
             /\ currentBet' >= currentBet
             /\ currentBet' # currentBet =>
                  /\ Ran("submitBet") /\ last'.arg = "raise"
                  /\ currentBet' = last'.amount]_vars

\* a raise over an earlier raise of the phase has been written
C27_Witness ==
  /\ last.op = "submitBet" /\ last.arg = "raise" /\ last.outcome = "written"
  /\ currentBet = last.amount
  /\ \E q \in Players \ {last.player} : bet[q] > 0 /\ bet[q] < currentBet
  /\ bet[last.player] = currentBet

\* C28: in every state of Bet1 and Bet2 every player's bet is <= currentBet,
\* and every non-folded player in the acted-set has bet = currentBet
C28_BetsWithinCurrentBet ==
  BettingPhase =>
    /\ \A q \in Players : bet[q] <= currentBet
    /\ \A q \in acted : ~folded[q] => bet[q] = currentBet

\* C29: before resolution chips only move from the players into the pot: no
\* accepted fold, check, call or raise increases a player's chips or
\* decreases pot, and the amount a call or raise moves is never negative
C29_ChipsOnlyIntoPot ==
  [][\A p \in Players :
       (Ran("submitBet") /\ last'.player = p) =>
          /\ BetMoved(p, last'.arg, last'.amount) >= 0
          /\ roundNumber' = roundNumber =>
               /\ \A q \in Players : chips'[q] <= chips[q]
               /\ pot' >= pot]_vars

SeatAfter(idx, k) == (idx + k) % Len(turnOrder)

\* C31: after an accepted betting action that does not complete the phase,
\* currentTurn is the nearest seat after the actor, in circular turn order,
\* whose player is not folded, the actor is in the acted-set, and the seat
\* scan ends within a number of steps bounded by the table size, also on a
\* table where every seat is folded
C31_NextBettingSeat ==
  [][(Ran("submitBet") /\ last'.outcome = "written") =>
       /\ turnOrder[currentTurn + 1] = last'.player
       /\ \E k \in 1..Len(turnOrder) :
            /\ currentTurn' = SeatAfter(currentTurn, k)
            /\ ~folded'[turnOrder[currentTurn' + 1]]
            /\ \A j \in 1..(k - 1) : folded'[turnOrder[SeatAfter(currentTurn, j) + 1]]
       /\ last'.player \in acted'
       /\ BetScanSteps(folded', currentTurn, 0) <= Len(turnOrder)
       /\ \A f \in [Seats -> BOOLEAN] : \A idx \in 0..(Len(turnOrder) - 1) :
            BetScanSteps(f, idx, 0) <= 2 * Len(turnOrder) + 1]_vars

\* a betting action was written and the turn passed over a folded seat
C31_Witness ==
  /\ last.op = "submitBet" /\ last.outcome = "written"
  /\ \E i \in 0..(Len(turnOrder) - 1) :
       /\ turnOrder[i + 1] = last.player
       /\ folded[turnOrder[SeatAfter(i, 1) + 1]]
       /\ currentTurn = SeatAfter(i, 2)
       /\ ~folded[turnOrder[currentTurn + 1]]

\* C32: in snipe, after an accepted prediction that does not complete the
\* round, currentTurn is the nearest following seat, in circular turn order,
\* whose player is neither folded nor holding a prediction; a prediction is
\* accepted only from a player without one, and the round is resolved only
\* when every other non-folded player holds one
C32_NextSnipeSeat ==
  [][Ran("submitSnipe") =>
       /\ phase = "snipe"
       /\ turnOrder[currentTurn + 1] = last'.player
       /\ snipedPrediction[last'.player] = Null
       /\ last'.outcome = "written" =>
            /\ snipedPrediction'[last'.player] = last'.arg
            /\ \E k \in 1..Len(turnOrder) :
                 /\ currentTurn' = SeatAfter(currentTurn, k)
                 /\ ~folded'[turnOrder[currentTurn' + 1]]
                 /\ snipedPrediction'[turnOrder[currentTurn' + 1]] = Null
                 /\ \A j \in 1..(k - 1) :
                      \/ folded'[turnOrder[SeatAfter(currentTurn, j) + 1]]
                      \/ snipedPrediction'[turnOrder[SeatAfter(currentTurn, j) + 1]] # Null
       /\ last'.outcome = "resolved" =>
            \A q \in Seats \ {last'.player} : ~folded[q] => snipedPrediction[q] # Null]_vars

\* a prediction was written and the turn passed over a folded seat
C32_Witness ==
  /\ last.op = "submitSnipe" /\ last.outcome = "written"
  /\ \E i \in 0..(Len(turnOrder) - 1) :
       /\ turnOrder[i + 1] = last.player
       /\ snipedPrediction[last.player] # Null
       /\ folded[turnOrder[SeatAfter(i, 1) + 1]]
       /\ currentTurn = SeatAfter(i, 2)
       /\ snipedPrediction[turnOrder[currentTurn + 1]] = Null

\* the cards dealt to the hands and to the board, as one sequence
RECURSIVE HandCards(_)
HandCards(S) ==
  IF S = {} THEN <<>>
  ELSE LET q == CHOOSE x \in S : \A y \in S : x <= y
       IN hand[q] \o HandCards(S \ {q})

DealtCards == HandCards(Seats) \o communityCards

\* the ranks getRandomCard can return from advancePhase's remaining deck:
\* Math.floor(Math.random() * length) takes every index of the deck
DrawableRanks ==
  LET remaining == RemainingDeck(hand, communityCards)
  IN {remaining[i] : i \in 1..Len(remaining)}

\* C33: on entering bet2 two community cards are added, both ranks in
\* 1..MaxRank; every rank with fewer than DeckCopies copies already dealt can
\* be drawn; and no rank is dealt more than DeckCopies times in the round
C33_DrawFromMultisetDifference ==
  [][(phase = "bet1" /\ phase' = "bet2") =>
       /\ Len(communityCards') = Len(communityCards) + 2
       /\ SubSeq(communityCards', 1, Len(communityCards)) = communityCards
       /\ \A i \in (Len(communityCards) + 1)..Len(communityCards') :
            communityCards'[i] \in 1..MaxRank
       /\ \A v \in 1..MaxRank :
            /\ CountOf(DealtCards, v) < DeckCopies => v \in DrawableRanks
            /\ CountOf(DealtCards', v) <= DeckCopies]_vars

\* C34: a player whose fold is accepted is folded afterwards and stays folded
\* in every later state of the round, also when the fold completes the
\* phase; a folded player is not given the turn, submits no prediction and
\* is not the winner of the resolution
C34_FoldIsKept ==
  [][/\ (last'.op \in {"submitBet", "foldPlayer"} /\ last'.outcome # "rejected"
          /\ (last'.op = "submitBet" => last'.arg = "fold")
          /\ roundNumber' = roundNumber) => folded'[last'.player]
     /\ \A q \in Seats :
          (folded[q] /\ roundNumber' = roundNumber) =>
             /\ folded'[q]
             /\ currentTurn' # currentTurn => turnOrder'[currentTurn' + 1] # q
     /\ Ran("submitSnipe") =>
          /\ ~folded[last'.player]
          /\ last'.outcome = "resolved" => \A q \in Seats : folded[q] => WinnerId # q]_vars

\* C35: a fold of the current player through foldPlayer changes the record
\* as submitBet with action fold does on the same state: the same folded
\* flags, acted-set and next currentTurn, and the same phase completion
C35_FoldPlayerAsSubmitBetFold ==
  [][(Ran("foldPlayer") /\ BetValid(last'.player, "fold", 0)) =>
       LET p == last'.player
           f == BetFolded(p, "fold")
           a == BetActed(p, "fold")
       IN IF BettingComplete(f, BetBet(p, "fold", 0), BetCurrentBet(p, "fold", 0), a)
          THEN /\ phase' = (IF phase = "bet1" THEN "bet2" ELSE "snipe")
               /\ folded' = folded
               /\ acted' = {}
               /\ currentTurn' = 0
          ELSE /\ phase' = phase
               /\ folded' = f
               /\ acted' = a
               /\ currentTurn' = BetScan(f, currentTurn, 0)]_vars

\* C36: in every reachable state at least one player is not folded
C36_SomeoneNotFolded == \E q \in Seats : ~folded[q]

\* C37: no state of a round in progress is stuck: the player at
\* turnOrder[currentTurn] has an action that is accepted, a submitBet action
\* in bet1 and bet2, a submitSnipe prediction in snipe
C37_CurrentPlayerHasMove ==
  Playing =>
    /\ BettingPhase =>
         \E action \in Actions : \E amount \in 0..(currentBet + StartChips) :
           BetValid(Current, action, amount)
    /\ phase = "snipe" =>
         \E prediction \in validPredictions : SnipeValid(Current, prediction)

\* the i-th operation is accepted and has not written yet
InFlight(i) == pending[i].pc \in {"got", "called", "read", "resolving"}

\* the record the i-th operation read last
ReadBy(i) == IF pending[i].pc = "read" THEN pending[i].snap ELSE pending[i].seen

\* C38: operations of two different players are never both accepted against
\* one snapshot of the record, and a write of one player is not replaced by
\* the write of an operation of the other player that read the record before
C38_NoLostWrite ==
  /\ [](\A i, j \in 1..MaxOps :
          (InFlight(i) /\ InFlight(j) /\ pending[i].player # pending[j].player)
            => pending[i].seen # pending[j].seen)
  /\ [][\A i \in 1..MaxOps :
          (InFlight(i) /\ ~InFlight(i)' /\ record' # record) =>
             ~(/\ last.outcome = "written"
               /\ last.player \in Players \ {pending[i].player}
               /\ ReadBy(i) # Snapshot)]_vars
====
